---- MODULE Spec2Model ----
(***************************************************************************)
(* A model of chainer.datasets.TextDataset                                 *)
(* (src/chainer/datasets/text_dataset.py): a line-indexed random-access    *)
(* reader over one or more text files read in lockstep.                    *)
(*                                                                         *)
(* Conventions.                                                            *)
(*   - A file's content is a sequence of one-byte characters.  No file on  *)
(*     the disk holds a "\r", so "\n" ends a line unless the newline       *)
(*     option of the file says otherwise.  A cursor position is a 0-origin *)
(*     byte offset, as fp.tell() reports it and fp.seek() takes it.        *)
(*   - Python sequences are 0-origin, TLA+ sequences 1-origin: Python      *)
(*     xs[i] is written xs[i + 1] here.  Line numbers and logical indices  *)
(*     keep their Python (0-origin) values.                                *)
(*   - self is the instance __dict__: a function from attribute names to   *)
(*     values.  An attribute missing from it is looked up on the class.    *)
(*   - File objects and lock objects live in two heaps (handles, locks),   *)
(*     functions from object identities to object states; the attributes   *)
(*     _fps and _lock hold identities.  An object nothing refers to any    *)
(*     more is reclaimed, and its identity is free for the next object.    *)
(*                                                                         *)
(* The last part models the counter N of chainer.links.BatchNormalization  *)
(* (src/chainer/links/normalization/batch_normalization.py); the variable  *)
(* bn is that link, and the Reader's variables stay as they start there.   *)
(***************************************************************************)
EXTENDS Integers, Sequences, FiniteSets, TLC

VARIABLES
    phase,      \* "new" | "constructed" | "failed" | "ready" | "closing"
    call,       \* the frame of the __init__, _close or __setstate__ call
    self,       \* the Reader's __dict__
    handles,    \* heap of file objects created by io.open
    locks,      \* heap of threading.Lock objects: TRUE = locked
    thr,        \* per thread: the frame of its get_example call
    snap,       \* the dict last returned by __getstate__
    bn          \* a BatchNormalization link (see its section below)

vars == <<phase, call, self, handles, locks, thr, snap, bn>>

----------------------------------------------------------------------------
(* Bounds of the model *)

\* longest list of paths (and of per-file options) passed to the constructor
MaxFiles == 2
\* largest logical index passed to get_example (the smallest is -1)
MaxIdx == 3

----------------------------------------------------------------------------
(* The environment: the files on disk, never modified once indexed *)

NL == "\n"
CR == "\r"
CRNL == "\r\n"

\* the files that exist, all of them ASCII and without a "\r"
Disk ==
    [ abc  |-> <<"a", NL, "b", NL, "c", NL>>,    \* 3 lines
      xy   |-> <<"x", "x", NL, "y">>,            \* 2 lines, no final newline
      ab   |-> <<"a", NL, NL>>,                  \* 2 lines, the second empty
      none |-> <<>> ]                            \* 0 lines

Files == DOMAIN Disk

\* the paths a Reader is given: the files, and a path that names no file
Paths == Files \cup {"missing"}

\* Python's None, where it is an option value or an absent attribute
None == "None"
\* the value of _fps when it is None (a list of files is never empty)
NoFps == <<>>

\* the strings the options are given as: "s" names no codec and is no
\* newline mode
EncodingStrings == {"ascii", "s"}
ErrorsStrings == {"strict"}
NewlineStrings == {CR, "s"}

\* the codecs io.open finds, and the newline modes it accepts
KnownEncodings == {None, "ascii", "utf-8"}
LegalNewlines == {None, "", NL, CR, CRNL}

\* sequences over S of length 0..n
RECURSIVE SeqsUpTo(_, _)
SeqsUpTo(S, n) ==
    IF n = 0 THEN {<<>>}
    ELSE LET shorter == SeqsUpTo(S, n - 1)
         IN  shorter \cup {Append(s, x) : s \in {q \in shorter : Len(q) = n - 1}, x \in S}

\* the constructor's `paths`: a string, or a list of strings
PathsArgs ==
    {[tag |-> "str", s |-> p] : p \in Paths}
    \cup {[tag |-> "list", l |-> l] : l \in SeqsUpTo(Paths, MaxFiles)}

\* the constructor's `encoding`, `errors` or `newline`, given as one of
\* the strings of S: None, a string, or a list
OptionArgs(S) ==
    {[tag |-> "none"]}
    \cup {[tag |-> "str", s |-> s] : s \in S}
    \cup {[tag |-> "list", l |-> l] : l \in SeqsUpTo(S, MaxFiles)}

\* every combination of the three options
AllOptions ==
    OptionArgs(EncodingStrings) \X OptionArgs(ErrorsStrings) \X OptionArgs(NewlineStrings)

\* the options of one constructor call: at most one of the three is given
OptionTriples ==
    {o \in AllOptions : Cardinality({i \in 1..3 : o[i].tag # "none"}) <= 1}

\* the constructor's `filter_func`: None, or one of these predicates
FilterFuncs == {None, "all", "never", "first_is_a_or_c"}

\* filter_func(*data)
ApplyFilter(f, data) ==
    CASE f = "all" -> TRUE
      [] f = "never" -> FALSE
      [] f = "first_is_a_or_c" -> data[1] \in {<<"a", NL>>, <<"c", NL>>, <<"a">>, <<"c">>}

----------------------------------------------------------------------------
(* File objects *)

\* the i-th character of content (counted from 1) ends a line of a file
\* opened with newline: "\r" or "\r\n" when that is the newline mode, and
\* "\n" otherwise (None, "" and "\n" differ only for files with a "\r")
EndsLineAt(content, i, newline) ==
    CASE newline = CR -> content[i] = CR
      [] newline = CRNL -> i > 1 /\ content[i - 1] = CR /\ content[i] = NL
      [] OTHER -> content[i] = NL

\* the offset just past the line that starts at pos: past its terminator,
\* or the end of the file
RECURSIVE LineEnd(_, _, _)
LineEnd(content, pos, newline) ==
    IF pos >= Len(content) THEN Len(content)
    ELSE IF EndsLineAt(content, pos + 1, newline) THEN pos + 1
    ELSE LineEnd(content, pos + 1, newline)

\* fp.readline(): the line read ("" at end of file)
ReadLine(fp) ==
    SubSeq(Disk[fp.path], fp.pos + 1, LineEnd(Disk[fp.path], fp.pos, fp.newline))

\* fp after fp.readline()
AfterReadLine(fp) ==
    [fp EXCEPT !.pos = LineEnd(Disk[fp.path], fp.pos, fp.newline)]

\* (mutant) tell() reports the start of the file
Tell_start(fp) == 0

\* fp.tell()
Tell(fp) == fp.pos

\* (mutant) seek() leaves the cursor where it is
AfterSeek_stay(fp, offset) == fp

\* fp after fp.seek(offset)
AfterSeek(fp, offset) == [fp EXCEPT !.pos = offset]

\* io.open(path, mode='rt', encoding=, errors=, newline=): the exception
\* it raises, or "none".  The file is opened first, then the newline mode
\* is checked, then the codec is looked up; the error policy is not looked
\* up before a character fails to decode, and none does.
IoOpenError(path, encoding, errors, newline) ==
    IF path \notin Files THEN "IOError"
    ELSE IF newline \notin LegalNewlines THEN "ValueError:newline"
    ELSE IF encoding \notin KnownEncodings THEN "LookupError"
    ELSE "none"

\* io.open(path, mode='rt', encoding=, errors=, newline=) when it raises
\* nothing: the file object it returns
IoOpen(path, encoding, errors, newline) ==
    [path |-> path, encoding |-> encoding, errors |-> errors,
     newline |-> newline, pos |-> 0, closed |-> FALSE]

\* fp after fp.close()
AfterClose(fp) == [fp EXCEPT !.closed = TRUE, !.pos = 0]

----------------------------------------------------------------------------
(* Attribute access *)

\* self.<name>: the instance __dict__ first, then the class (_fps = None)
HasAttr(d, name) == name \in DOMAIN d
Fps(d) == IF HasAttr(d, "_fps") THEN d._fps ELSE NoFps

\* self._lock: the class has no such attribute, 0 stands for the
\* AttributeError of looking it up in a __dict__ without it
LockOf(d) == IF HasAttr(d, "_lock") THEN d._lock ELSE 0

\* d with d[name] = value
SetAttr(d, name, value) ==
    [k \in DOMAIN d \cup {name} |-> IF k = name THEN value ELSE d[k]]

\* d without the keys in names
DelAttrs(d, names) == [k \in DOMAIN d \ names |-> d[k]]

EmptyDict == [k \in {} |-> None]

----------------------------------------------------------------------------
(* The heaps *)

\* the n smallest identities not in used, in increasing order
RECURSIVE NewIds(_, _)
NewIds(used, n) ==
    IF n = 0 THEN <<>>
    ELSE LET i == CHOOSE i \in 1..(Cardinality(used) + 1) :
                      i \notin used /\ \A j \in 1..(i - 1) : j \in used
         IN  <<i>> \o NewIds(used \cup {i}, n - 1)

\* the elements of a sequence
Elems(s) == {s[i] : i \in 1..Len(s)}

\* heap h without the objects outside keep
Restrict(h, keep) == [i \in DOMAIN h \cap keep |-> h[i]]

\* heap h with object i in state v
Put(h, i, v) == [j \in DOMAIN h \cup {i} |-> IF j = i THEN v ELSE h[j]]

----------------------------------------------------------------------------
(* _open and _close *)

\* lines 139-145: the exception of the io.open call for the i-th path
OpenErrorAt(d, i) ==
    IoOpenError(d._paths[i], d._encoding[i], d._errors[i], d._newline[i])

\* lines 138-146: the list comprehension ends with the first io.open call
\* that raises: the exception ("none" when every call returns a file) and
\* the number of files opened before it
OpenFailure(d) ==
    LET bad == {i \in 1..Len(d._paths) : OpenErrorAt(d, i) # "none"}
    IN  IF bad = {} THEN [err |-> "none", opened |-> Len(d._paths)]
        ELSE LET i == CHOOSE i \in bad : \A j \in bad : i <= j
             IN  [err |-> OpenErrorAt(d, i), opened |-> i - 1]

\* the list _open builds when no io.open call raises: one new file object
\* per path
OpenedFiles(d) ==
    [i \in 1..Len(d._paths) |->
        IoOpen(d._paths[i], d._encoding[i], d._errors[i], d._newline[i])]

\* (mutant) _open() without its check that the files are already open
OpenOp_always(d, hs, pinned) ==
    IF OpenFailure(d).err # "none"
    THEN <<d, Restrict(hs, pinned), OpenFailure(d).err>>
    ELSE LET new == OpenedFiles(d)
             ids == NewIds(pinned, Len(new))
         IN  <<SetAttr(d, "_fps", ids),
               [h \in (DOMAIN hs \cap pinned) \cup Elems(ids) |->
                   IF h \in Elems(ids)
                   THEN new[CHOOSE i \in 1..Len(ids) : ids[i] = h]
                   ELSE hs[h]],
               "none">>

\* _open(): <<self, handles, exception>> afterwards.  pinned: the file
\* objects other frames still refer to; the others that self does not hold
\* are reclaimed.  When an io.open call raises, _fps stays None and the
\* files opened before it are reclaimed with the unfinished list.
OpenOp(d, hs, pinned) ==
    IF Fps(d) # NoFps THEN <<d, hs, "none">>
    ELSE IF OpenFailure(d).err # "none"
    THEN <<d, Restrict(hs, pinned), OpenFailure(d).err>>
    ELSE LET new == OpenedFiles(d)
             ids == NewIds(pinned, Len(new))
         IN  <<SetAttr(d, "_fps", ids),
               [h \in (DOMAIN hs \cap pinned) \cup Elems(ids) |->
                   IF h \in Elems(ids)
                   THEN new[CHOOSE i \in 1..Len(ids) : ids[i] = h]
                   ELSE hs[h]],
               "none">>

\* (mutant) lines 152-155 without the try: the exception of close() leaves
\* the loop
CloseOne_raising(st, h, fails) ==
    [handles |-> [st.handles EXCEPT ![h] = AfterClose(@)],
     err |-> IF fails THEN "IOError" ELSE st.err,
     swallowed |-> st.swallowed]

\* lines 152-155: fp.close() inside try/except for the file object h.  When
\* close() fails it raises after the file object is marked closed, and the
\* exception is swallowed.  st: the file objects, the exception leaving the
\* loop ("none"), and the number of exceptions swallowed so far.
CloseOne(st, h, fails) ==
    [handles |-> [st.handles EXCEPT ![h] = AfterClose(@)],
     err |-> st.err,
     swallowed |-> IF fails THEN st.swallowed + 1 ELSE st.swallowed]

\* lines 151-155: the loop from the k-th file on; close() fails for the
\* files whose index is in failing
RECURSIVE CloseLoop(_, _, _, _)
CloseLoop(st, fps, k, failing) ==
    IF k > Len(fps) \/ st.err # "none" THEN st
    ELSE CloseLoop(CloseOne(st, fps[k], k \in failing), fps, k + 1, failing)

\* _close() when close() fails for the files in failing: [self, handles]
\* afterwards, the exception _close() raises (err) and the number of
\* exceptions it swallowed
CloseOpWith(d, hs, failing) ==
    IF Fps(d) = NoFps
    THEN [self |-> d, handles |-> hs, err |-> "none", swallowed |-> 0]
    ELSE LET st == CloseLoop([handles |-> hs, err |-> "none", swallowed |-> 0],
                             Fps(d), 1, failing)
         IN  [self |-> IF st.err = "none" THEN SetAttr(d, "_fps", NoFps) ELSE d,
              handles |-> st.handles, err |-> st.err, swallowed |-> st.swallowed]

\* _close(): <<self, handles>> afterwards: every file closed, _fps = None
CloseOp(d, hs) ==
    LET r == CloseOpWith(d, hs, {})
    IN  <<r.self, r.handles>>

-----
(* __init__ *)

\* lines 64-67: the list of paths, or "empty"
NormPaths(paths) ==
    IF paths.tag = "str" THEN <<paths.s>> ELSE paths.l

\* (mutant) a string option is not repeated per file
Broadcast_once(opt, n) ==
    CASE opt.tag = "none" -> [i \in 1..n |-> None]
      [] opt.tag = "str" -> <<opt.s>>
      [] opt.tag = "list" -> opt.l

\* lines 69-74: an option given as a string or None is repeated per file
Broadcast(opt, n) ==
    CASE opt.tag = "none" -> [i \in 1..n |-> None]
      [] opt.tag = "str" -> [i \in 1..n |-> opt.s]
      [] opt.tag = "list" -> opt.l

\* all(data), any(data): a line is falsy when it is empty
AllTrue(data) == \A k \in 1..Len(data) : data[k] # <<>>

\* (mutant) the loop never sees that some file still has lines
AnyTrue_never(data) == FALSE

AnyTrue(data) == \E k \in 1..Len(data) : data[k] # <<>>

\* range(n)
Range(n) == [i \in 1..n |-> i - 1]

\* (mutant) the line set is kept when filter_func rejects it
Keeps_rejected(filter_func, data) ==
    filter_func # None /\ ~ApplyFilter(filter_func, data)

\* line 106: the line set is kept: filter_func is given and accepts it
Keeps(filter_func, data) == filter_func # None /\ ApplyFilter(filter_func, data)

\* (mutant) without a filter_func, lines is range(linenum + 1)
FinalLines_onemore(filter_func, linenum, lines) ==
    IF filter_func = None THEN Range(linenum + 1) ELSE lines

\* lines 110-111: without a filter_func, lines is range(linenum)
FinalLines(filter_func, linenum, lines) ==
    IF filter_func = None THEN Range(linenum) ELSE lines

\* (mutant) filter_func is called twice for a line set
CallsAfter_twice(filter_func, calls, linenum) ==
    IF filter_func # None THEN Append(Append(calls, linenum), linenum) ELSE calls

\* line 106: the line numbers filter_func was called with, after the
\* iteration for linenum: `filter_func is not None and filter_func(*data)`
\* calls it once, when it is given
CallsAfter(filter_func, calls, linenum) ==
    IF filter_func # None THEN Append(calls, linenum) ELSE calls

\* lines 94-108: the indexing loop over the open files fps.  st is the
\* loop's state: the files, linenum, lines, bounds and, for the record, the
\* line numbers filter_func was called with and the number of readline calls.
RECURSIVE IndexLoop(_, _)
IndexLoop(filter_func, st) ==
    LET n == Len(st.fps)
        data == [k \in 1..n |-> ReadLine(st.fps[k])]
        fps1 == [k \in 1..n |-> AfterReadLine(st.fps[k])]
    IN  IF ~AllTrue(data)
        THEN [st EXCEPT !.fps = fps1, !.reads = st.reads + n,
                        !.err = IF AnyTrue(data) THEN "ValueError:lines" ELSE "none"]
        ELSE IndexLoop(filter_func,
                   [fps |-> fps1,
                    linenum |-> st.linenum + 1,
                    lines |-> IF Keeps(filter_func, data)
                              THEN Append(st.lines, st.linenum) ELSE st.lines,
                    bounds |-> [k \in 1..n |-> Append(st.bounds[k], Tell(fps1[k]))],
                    calls |-> CallsAfter(filter_func, st.calls, st.linenum),
                    reads |-> st.reads + n,
                    err |-> "none"])

\* __init__(paths, encoding, errors, newline, filter_func) on a new object:
\* the outcome [err, self, handles, locks] and, for the record, the number
\* of io.open calls made (tried), of files they opened (opens), of
\* readline calls (reads) and the line numbers filter_func was called with
\* (calls)
InitOp(paths, encoding, errors, newline, filter_func) ==
    LET failed(e) == [err |-> e, self |-> EmptyDict, handles |-> <<>>, locks |-> <<>>,
                      tried |-> 0, opens |-> 0, reads |-> 0, calls |-> <<>>]
        ps == NormPaths(paths)
        n == Len(ps)
        enc == Broadcast(encoding, n)
        ers == Broadcast(errors, n)
        nls == Broadcast(newline, n)
    IN  IF paths.tag # "str" /\ n = 0 THEN failed("ValueError:empty")
        ELSE IF ~(n = Len(enc) /\ Len(enc) = Len(ers) /\ Len(ers) = Len(nls))
        THEN failed("ValueError:options")
        ELSE
        LET d0 == [_paths |-> ps, _encoding |-> enc, _errors |-> ers,
                   _newline |-> nls, _fps |-> NoFps]
            opened == OpenOp(d0, <<>>, {})
        IN  IF opened[3] # "none"
            THEN \* line 87 raises: the object is dropped with _fps = None
                 [err |-> opened[3], self |-> d0, handles |-> <<>>, locks |-> <<>>,
                  tried |-> OpenFailure(d0).opened + 1,
                  opens |-> OpenFailure(d0).opened, reads |-> 0, calls |-> <<>>]
            ELSE
        LET d1 == opened[1]
            loop == IndexLoop(filter_func,
                      [fps |-> [k \in 1..n |-> opened[2][d1._fps[k]]],
                       linenum |-> 0, lines |-> <<>>,
                       bounds |-> [k \in 1..n |-> <<0>>],
                       calls |-> <<>>, reads |-> 0, err |-> "none"])
            hs1 == [h \in DOMAIN opened[2] |->
                       loop.fps[CHOOSE k \in 1..n : d1._fps[k] = h]]
        IN  IF loop.err # "none"
            THEN \* the exception leaves __init__ and the object is dropped:
                 \* __del__ closes the files, and they are reclaimed
                 [err |-> loop.err, self |-> CloseOp(d1, hs1)[1], handles |-> <<>>,
                  locks |-> <<>>, tried |-> n, opens |-> n, reads |-> loop.reads,
                  calls |-> loop.calls]
            ELSE [err |-> "none",
                  self |-> d1 @@ [_bounds |-> loop.bounds,
                                  _lines |-> FinalLines(filter_func, loop.linenum,
                                                        loop.lines),
                                  _lock |-> 1],
                  handles |-> hs1,
                  locks |-> <<FALSE>>,
                  tried |-> n, opens |-> n, reads |-> loop.reads,
                  calls |-> loop.calls]

----------------------------------------------------------------------------
(* __getstate__, __setstate__ *)

\* (mutant) __getstate__() forgets to delete '_fps'
GetStateOp_keepfps(d) == DelAttrs(d, {"_lock"})

\* __getstate__(): a copy of __dict__ without '_fps' and '_lock'
GetStateOp(d) == DelAttrs(d, {"_fps", "_lock"})

\* (mutant) __setstate__(state) without its call of _open()
SetStateOp_noopen(d, state, hs, ls, pinned, pinnedLocks) ==
    LET closed == CloseOp(d, hs)
        lock == NewIds(pinnedLocks, 1)[1]
    IN  [self |-> SetAttr(state, "_lock", lock),
         handles |-> closed[2],
         locks |-> Put(Restrict(ls, pinnedLocks), lock, FALSE),
         err |-> "none"]

\* __setstate__(state) on the object whose __dict__ is d: the outcome
\* [self, handles, locks, err].  _close(), then __dict__ = state, then
\* _open(), then a new Lock; an exception of _open() leaves the call before
\* the Lock is made.  pinned, pinnedLocks: the file and lock objects other
\* frames still refer to.
SetStateOp(d, state, hs, ls, pinned, pinnedLocks) ==
    LET closed == CloseOp(d, hs)
        opened == OpenOp(state, closed[2], pinned)
        lock == NewIds(pinnedLocks, 1)[1]
    IN  IF opened[3] # "none"
        THEN [self |-> opened[1], handles |-> opened[2],
              locks |-> Restrict(ls, pinnedLocks), err |-> opened[3]]
        ELSE [self |-> SetAttr(opened[1], "_lock", lock),
              handles |-> opened[2],
              locks |-> Put(Restrict(ls, pinnedLocks), lock, FALSE),
              err |-> "none"]

----------------------------------------------------------------------------
(* get_example *)

\* __len__()
LenOp(d) == Len(d._lines)

\* (mutant) the range check forgets negative indices
IndexOutOfRange_nonneg(d, idx) == Len(d._lines) <= idx

\* line 159: the index is out of range
IndexOutOfRange(d, idx) == idx < 0 \/ Len(d._lines) <= idx

\* Python's seq[i]: a negative i counts from the end, and an i outside
\* -len..len-1 raises IndexError
PyIndexOk(seq, i) == -Len(seq) <= i /\ i < Len(seq)
PyIndex(seq, i) == IF i < 0 THEN seq[Len(seq) + i + 1] ELSE seq[i + 1]

\* lines 159-161: get_example raises IndexError before it takes the lock
RaisesIndexError(d, idx) == IndexOutOfRange(d, idx) \/ ~PyIndexOk(d._lines, idx)

\* line 161: self._lines[idx]
LineNumOf(d, idx) == PyIndex(d._lines, idx)

\* (mutant) every file is sought with the first file's offsets
SeekOffset_firstfile(d, k, linenum) == d._bounds[1][linenum + 1]

\* line 166: self._bounds[k][linenum], k counted from 1 here
SeekOffset(d, k, linenum) == d._bounds[k][linenum + 1]

\* lines 168-170: the value returned: the bare line of a single file, or
\* the tuple of lines.  bare tells the two shapes apart.
Returned(lines) ==
    [kind |-> "ok", bare |-> (Len(lines) = 1), lines |-> lines]

\* an exception raised by get_example
Raised(e) == [kind |-> e, bare |-> FALSE, lines |-> <<>>]

NoOutcome == [kind |-> "none", bare |-> FALSE, lines |-> <<>>]

\* get_example(idx) run from its first line to its last with no other call
\* in between and no failure of the operating system: [out, handles]
SeqGet(d, hs, idx) ==
    IF RaisesIndexError(d, idx) THEN [out |-> Raised("IndexError"), handles |-> hs]
    ELSE IF Fps(d) = NoFps THEN [out |-> Raised("TypeError"), handles |-> hs]
    ELSE IF \E h \in Elems(Fps(d)) : hs[h].closed
    THEN [out |-> Raised("ValueError"), handles |-> hs]
    ELSE
    LET fps == Fps(d)
        linenum == LineNumOf(d, idx)
        kOf(h) == CHOOSE k \in 1..Len(fps) : fps[k] = h
        sought == [h \in DOMAIN hs |->
                     IF h \in Elems(fps)
                     THEN AfterSeek(hs[h], SeekOffset(d, kOf(h), linenum))
                     ELSE hs[h]]
    IN  [out |-> Returned([k \in 1..Len(fps) |-> ReadLine(sought[fps[k]])]),
         handles |-> [h \in DOMAIN hs |->
                        IF h \in Elems(fps) THEN AfterReadLine(sought[h]) ELSE sought[h]]]

----------------------------------------------------------------------------
(* Threads *)

Threads == {"t1", "t2"}

\* the frame of a get_example call: where it is (pc), its argument idx,
\* its local linenum, the lock object it evaluated self._lock to, the list
\* it is iterating over (fps) and how far (k), the lines read so far, and
\* the value or exception it is leaving with (out)
IdleFrame ==
    [pc |-> "idle", idx |-> 0, linenum |-> 0, lock |-> 0, fps |-> NoFps,
     k |-> 0, lines |-> <<>>, out |-> NoOutcome]

NoCall == [op |-> "none"]

\* bn before a BatchNormalization link is constructed
NoLink == [phase |-> "new"]

\* snap before any __getstate__ call, and after __setstate__ made the
\* snapshot the __dict__ of a Reader
NoSnap == [none |-> None]
Adopted == [adopted |-> None]
IsSnapshot(s) == s # NoSnap /\ s # Adopted

\* the file objects and the lock objects that get_example frames refer to
Pinned == UNION {Elems(thr[t].fps) : t \in Threads}
PinnedLocks == {thr[t].lock : t \in Threads} \ {0}

\* between the acquire and the release of get_example
InCritical(f) == f.pc \in {"enter", "seek", "readeval", "read", "release"}

\* no get_example call is running
Quiet == \A t \in Threads : thr[t].pc \in {"idle", "done"}

----------------------------------------------------------------------------
(* The state machine *)

Init ==
    /\ phase = "new"
    /\ call = NoCall
    /\ self = EmptyDict
    /\ handles = <<>>
    /\ locks = <<>>
    /\ thr = [t \in Threads |-> IdleFrame]
    /\ snap = NoSnap
    /\ bn = NoLink

\* TextDataset(paths, encoding, errors, newline, filter_func), the options
\* drawn from Options
ConstructWith(Options) ==
    /\ phase = "new"
    /\ \E paths \in PathsArgs, opts \in Options, filter_func \in FilterFuncs :
         LET r == InitOp(paths, opts[1], opts[2], opts[3], filter_func)
         IN  /\ phase' = IF r.err = "none" THEN "constructed" ELSE "failed"
             /\ call' = [op |-> "__init__", paths |-> paths, encoding |-> opts[1],
                         errors |-> opts[2], newline |-> opts[3],
                         filter_func |-> filter_func, err |-> r.err,
                         tried |-> r.tried, opens |-> r.opens, reads |-> r.reads,
                         calls |-> r.calls]
             /\ self' = r.self
             /\ handles' = r.handles
             /\ locks' = r.locks
    /\ UNCHANGED <<thr, snap, bn>>

\* the constructor with any combination of options
ConstructAny == ConstructWith(AllOptions)

\* the constructor with at most one option given
Construct == ConstructWith(OptionTriples)

\* the constructor with no option given
ConstructPlain == ConstructWith({<<[tag |-> "none"], [tag |-> "none"], [tag |-> "none"]>>})

\* the constructor returns the Reader to its caller: its frame is gone
InitReturn ==
    /\ phase = "constructed"
    /\ phase' = "ready"
    /\ call' = NoCall
    /\ UNCHANGED <<self, handles, locks, thr, snap, bn>>

\* (mutant) no finally clause: an exception leaves get_example at once
Leaving_nofinally(f, out) ==
    [f EXCEPT !.pc = IF out.kind = "ok" THEN "release" ELSE "done",
              !.out = out, !.linenum = 0, !.fps = NoFps, !.k = 0, !.lines = <<>>]

\* lines 164, 171: the frame f on its way out of the try block with the
\* value or exception out: only the finally clause is left to run
Leaving(f, out) ==
    [f EXCEPT !.pc = "release", !.out = out, !.linenum = 0, !.fps = NoFps,
              !.k = 0, !.lines = <<>>]

\* get_example(idx), lines 159-161: the range check and the lookup
GetCall(t) ==
    /\ phase = "ready"
    /\ thr[t].pc = "idle"
    /\ \E idx \in -1..MaxIdx :
         thr' = [thr EXCEPT ![t] =
                   IF RaisesIndexError(self, idx)
                   THEN [@ EXCEPT !.pc = "done", !.idx = idx, !.out = Raised("IndexError")]
                   ELSE [@ EXCEPT !.pc = "acquire", !.idx = idx,
                                  !.linenum = LineNumOf(self, idx)]]
    /\ UNCHANGED <<phase, call, self, handles, locks, snap, bn>>

\* (mutant) the call goes on without taking the lock
GetAcquire_nolock(t) ==
    /\ thr[t].pc = "acquire"
    /\ thr' = [thr EXCEPT ![t].pc = "enter", ![t].lock = self._lock]
    /\ locks' = [locks EXCEPT ![self._lock] = TRUE]
    /\ UNCHANGED <<phase, call, self, handles, snap, bn>>

\* line 163: self._lock.acquire().  self._lock is evaluated once; the call
\* then blocks on that lock object until it is free.  Without the attribute
\* (in the middle of a __setstate__) the lookup raises AttributeError, and
\* the call leaves before its try block.
GetAcquire(t) ==
    /\ thr[t].pc = "acquire"
    /\ LET l == IF thr[t].lock = 0 THEN LockOf(self) ELSE thr[t].lock
       IN  IF l = 0
           THEN /\ thr' = [thr EXCEPT ![t] =
                             [Leaving(@, Raised("AttributeError")) EXCEPT !.pc = "done"]]
                /\ UNCHANGED locks
           ELSE IF ~locks[l]
           THEN /\ locks' = [locks EXCEPT ![l] = TRUE]
                /\ thr' = [thr EXCEPT ![t].pc = "enter", ![t].lock = l]
           ELSE /\ thr[t].lock = 0
                /\ thr' = [thr EXCEPT ![t].lock = l]
                /\ UNCHANGED locks
    /\ UNCHANGED <<phase, call, self, handles, snap, bn>>

\* line 165: enumerate(self._fps); iterating None raises TypeError
GetEnter(t) ==
    /\ thr[t].pc = "enter"
    /\ thr' = [thr EXCEPT ![t] =
                 IF Fps(self) = NoFps
                 THEN Leaving(@, Raised("TypeError"))
                 ELSE [@ EXCEPT !.pc = "seek", !.fps = Fps(self), !.k = 1]]
    /\ UNCHANGED <<phase, call, self, handles, locks, snap, bn>>

\* line 166: the seek loop after its k-th step: the next step, or line 167
AfterSeekStep(f) ==
    IF f.k = Len(f.fps) THEN [f EXCEPT !.pc = "readeval", !.k = 0, !.fps = NoFps]
    ELSE [f EXCEPT !.k = f.k + 1]

\* line 166: fp.seek(self._bounds[k][linenum]) for the k-th file.  A closed
\* file raises ValueError; the operating system may fail the call.
GetSeek(t) ==
    /\ thr[t].pc = "seek"
    /\ LET f == thr[t]
           h == f.fps[f.k]
       IN  \/ /\ handles[h].closed
              /\ thr' = [thr EXCEPT ![t] = Leaving(f, Raised("ValueError"))]
              /\ UNCHANGED handles
           \/ /\ ~handles[h].closed
              /\ thr' = [thr EXCEPT ![t] = Leaving(f, Raised("IOError"))]
              /\ UNCHANGED handles
           \/ /\ ~handles[h].closed
              /\ handles' = [handles EXCEPT ![h] =
                               AfterSeek(@, SeekOffset(self, f.k, f.linenum))]
              /\ thr' = [thr EXCEPT ![t] = AfterSeekStep(f)]
    /\ UNCHANGED <<phase, call, self, locks, snap, bn>>

\* line 167: the comprehension evaluates self._fps again
GetReadEval(t) ==
    /\ thr[t].pc = "readeval"
    /\ thr' = [thr EXCEPT ![t] =
                 IF Fps(self) = NoFps
                 THEN Leaving(@, Raised("TypeError"))
                 ELSE [@ EXCEPT !.pc = "read", !.fps = Fps(self), !.k = 1,
                                !.lines = <<>>]]
    /\ UNCHANGED <<phase, call, self, handles, locks, snap, bn>>

\* line 167: fp.readline() for the k-th file; after the last one, lines
\* 168-170 decide the value to return
GetRead(t) ==
    /\ thr[t].pc = "read"
    /\ LET f == thr[t]
           h == f.fps[f.k]
       IN  \/ /\ handles[h].closed
              /\ thr' = [thr EXCEPT ![t] = Leaving(f, Raised("ValueError"))]
              /\ UNCHANGED handles
           \/ /\ ~handles[h].closed
              /\ thr' = [thr EXCEPT ![t] = Leaving(f, Raised("IOError"))]
              /\ UNCHANGED handles
           \/ /\ ~handles[h].closed
              /\ handles' = [handles EXCEPT ![h] = AfterReadLine(@)]
              /\ LET lines == Append(f.lines, ReadLine(handles[h]))
                 IN  thr' = [thr EXCEPT ![t] =
                               IF f.k = Len(f.fps)
                               THEN Leaving(f, Returned(lines))
                               ELSE [f EXCEPT !.k = f.k + 1, !.lines = lines]]
    /\ UNCHANGED <<phase, call, self, locks, snap, bn>>

\* lines 171-172: finally: self._lock.release().  self._lock is evaluated
\* again; a missing attribute raises AttributeError and releasing an
\* unlocked lock raises RuntimeError, which replaces the value or exception
\* the call was leaving with.
GetRelease(t) ==
    /\ thr[t].pc = "release"
    /\ LET l == LockOf(self)
       IN  IF l = 0
           THEN /\ thr' = [thr EXCEPT ![t].pc = "done", ![t].lock = 0,
                                      ![t].out = Raised("AttributeError")]
                /\ UNCHANGED locks
           ELSE IF locks[l]
           THEN /\ locks' = [locks EXCEPT ![l] = FALSE]
                /\ thr' = [thr EXCEPT ![t].pc = "done", ![t].lock = 0]
           ELSE /\ thr' = [thr EXCEPT ![t].pc = "done", ![t].lock = 0,
                                      ![t].out = Raised("RuntimeError")]
                /\ UNCHANGED locks
    /\ UNCHANGED <<phase, call, self, handles, snap, bn>>

\* the caller has the outcome of get_example: the frame is gone
GetReturn(t) ==
    /\ thr[t].pc = "done"
    /\ thr' = [thr EXCEPT ![t] = IdleFrame]
    /\ UNCHANGED <<phase, call, self, handles, locks, snap, bn>>

\* _open(); the files were opened before and are still there, so that no
\* io.open call raises
Open ==
    /\ phase = "ready"
    /\ LET r == OpenOp(self, handles, Pinned)
       IN  self' = r[1] /\ handles' = r[2]
    /\ UNCHANGED <<phase, call, locks, thr, snap, bn>>

\* _close() as one step, taken while no get_example call is running and
\* none starts before it returns; close() fails for any of the files, and
\* call is the frame of the call
Close ==
    /\ phase = "ready"
    /\ \E failing \in SUBSET (1..Len(Fps(self))) :
         LET r == CloseOpWith(self, handles, failing)
         IN  /\ self' = r.self
             /\ handles' = r.handles
             /\ call' = [op |-> "_close", failing |-> failing, err |-> r.err,
                         swallowed |-> r.swallowed]
    /\ phase' = "closing"
    /\ UNCHANGED <<locks, thr, snap, bn>>

\* _close() returns to its caller: its frame is gone
CloseReturn ==
    /\ phase = "closing"
    /\ phase' = "ready"
    /\ call' = NoCall
    /\ UNCHANGED <<self, handles, locks, thr, snap, bn>>

\* (mutant) __getstate__() closes the files before it returns the state
Snapshot_closing ==
    /\ phase = "ready"
    /\ snap' = GetStateOp(self)
    /\ LET r == CloseOp(self, handles)
       IN  self' = r[1] /\ handles' = r[2]
    /\ UNCHANGED <<phase, call, locks, thr, bn>>

\* __getstate__()
Snapshot ==
    /\ phase = "ready"
    /\ snap' = GetStateOp(self)
    /\ UNCHANGED <<phase, call, self, handles, locks, thr, bn>>

\* __setstate__(snap), on this Reader or (fresh) on a new object made
\* without __init__, which the model follows from then on
Restore(fresh) ==
    /\ phase = "ready"
    /\ IsSnapshot(snap)
    /\ fresh => Quiet
    /\ LET r == SetStateOp(IF fresh THEN EmptyDict ELSE self, snap, handles, locks,
                           Pinned, PinnedLocks)
       IN  self' = r.self /\ handles' = r.handles /\ locks' = r.locks
    /\ snap' = Adopted
    /\ UNCHANGED <<phase, call, thr, bn>>

GetStep(t) ==
    \/ GetCall(t)
    \/ GetAcquire(t)
    \/ GetEnter(t)
    \/ GetSeek(t)
    \/ GetReadEval(t)
    \/ GetRead(t)
    \/ GetRelease(t)
    \/ GetReturn(t)

\* Threads call get_example concurrently; _open, _close, __getstate__ and
\* __setstate__ run only while no get_example call is running.
Next ==
    \/ Construct
    \/ InitReturn
    \/ \E t \in Threads : GetStep(t)
    \/ Quiet /\ Open
    \/ Quiet /\ Close
    \/ CloseReturn
    \/ Quiet /\ Snapshot
    \/ Quiet /\ \E fresh \in BOOLEAN : Restore(fresh)

Spec == Init /\ [][Next]_vars

\* Spec, and a thread that is past the acquire keeps running until it has
\* left get_example.
InsideStep(t) ==
    GetEnter(t) \/ GetSeek(t) \/ GetReadEval(t) \/ GetRead(t) \/ GetRelease(t)

FairSpec == Spec /\ \A t \in Threads : WF_vars(InsideStep(t))

\* The constructor alone, over every combination of its arguments.
NextInit == ConstructAny

\* _close() line by line, beside running get_example calls: call is its
\* frame, with the list the loop of line 151 iterates (fps) and the place
\* in it of the next file (k)
CloseFrame(fps) == [op |-> "_close", pc |-> "close", fps |-> fps, k |-> 1]

\* the loop of _close is running, called directly or by __setstate__
InClose == call.op \in {"_close", "__setstate__"} /\ call.pc = "close"

\* lines 149-151: _close() is called on a Reader whose files are open (on
\* a Reader without files it returns at line 150 and changes nothing)
CloseCall ==
    /\ phase = "ready" /\ call = NoCall
    /\ Fps(self) # NoFps
    /\ call' = CloseFrame(Fps(self))
    /\ UNCHANGED <<phase, self, handles, locks, thr, snap, bn>>

\* lines 152-155: fp.close() for the next file of the list, failing or not
CloseFile ==
    /\ InClose /\ call.k <= Len(call.fps)
    /\ \E fails \in BOOLEAN :
         LET r == CloseOne([handles |-> handles, err |-> "none", swallowed |-> 0],
                           call.fps[call.k], fails)
         IN  /\ handles' = r.handles
             /\ call' = IF r.err = "none" THEN [call EXCEPT !.k = @ + 1] ELSE NoCall
    /\ UNCHANGED <<phase, self, locks, thr, snap, bn>>

\* line 156: self._fps = None, after the last file; _close() returns, to
\* its caller or to line 128 of __setstate__
CloseStore ==
    /\ InClose /\ call.k > Len(call.fps)
    /\ self' = SetAttr(self, "_fps", NoFps)
    /\ call' = IF call.op = "_close" THEN NoCall
               ELSE [call EXCEPT !.pc = "adopt", !.fps = NoFps, !.k = 0]
    /\ UNCHANGED <<phase, handles, locks, thr, snap, bn>>

\* __setstate__(snap) on this Reader, line by line, call being its frame;
\* fps and k are those of its _close() call
SetStateFrame(pc, state) ==
    [op |-> "__setstate__", pc |-> pc, state |-> state, fps |-> NoFps, k |-> 0]

InSetState(pc) == call.op = "__setstate__" /\ call.pc = pc

\* __setstate__ is called
SetStateCall ==
    /\ phase = "ready" /\ call = NoCall
    /\ IsSnapshot(snap)
    /\ call' = SetStateFrame("call", snap)
    /\ UNCHANGED <<phase, self, handles, locks, thr, snap, bn>>

\* (mutant) __setstate__ without its call of _close()
SetStateClose_skipped ==
    /\ InSetState("call")
    /\ call' = [call EXCEPT !.pc = "adopt"]
    /\ UNCHANGED <<phase, self, handles, locks, thr, snap, bn>>

\* line 127: self._close() is called, lines 149-151: it returns at once
\* when the Reader has no files, and else starts its loop over them
SetStateClose ==
    /\ InSetState("call")
    /\ call' = IF Fps(self) = NoFps THEN [call EXCEPT !.pc = "adopt"]
               ELSE [call EXCEPT !.pc = "close", !.fps = Fps(self), !.k = 1]
    /\ UNCHANGED <<phase, self, handles, locks, thr, snap, bn>>

\* line 128: self.__dict__ = state
SetStateAdopt ==
    /\ InSetState("adopt")
    /\ self' = call.state
    /\ snap' = Adopted
    /\ call' = [call EXCEPT !.pc = "open"]
    /\ UNCHANGED <<phase, handles, locks, thr, bn>>

\* line 129: self._open()
SetStateOpen ==
    /\ InSetState("open")
    /\ LET r == OpenOp(self, handles, Pinned)
       IN  /\ self' = r[1] /\ handles' = r[2]
           /\ call' = IF r[3] = "none" THEN [call EXCEPT !.pc = "lock"] ELSE NoCall
    /\ UNCHANGED <<phase, locks, thr, snap, bn>>

\* line 130: self._lock = threading.Lock(), and __setstate__ returns
SetStateLock ==
    /\ InSetState("lock")
    /\ LET lock == NewIds(PinnedLocks, 1)[1]
       IN  /\ self' = SetAttr(self, "_lock", lock)
           /\ locks' = Put(Restrict(locks, PinnedLocks), lock, FALSE)
    /\ call' = NoCall
    /\ UNCHANGED <<phase, handles, thr, snap, bn>>

\* Threads call get_example while one more thread calls _close at any time,
\* takes the state of the Reader once and restores it once, one call after
\* the other, on the same Reader: nothing in the code keeps the two apart,
\* so that get_example calls start and run between any two lines of _close
\* and __setstate__, and between the close() calls of two files.
NextRace ==
    \/ ConstructPlain
    \/ InitReturn
    \/ \E t \in Threads : GetStep(t)
    \/ CloseCall
    \/ CloseFile
    \/ CloseStore
    \/ call = NoCall /\ snap = NoSnap /\ Snapshot
    \/ SetStateCall
    \/ SetStateClose
    \/ SetStateAdopt
    \/ SetStateOpen
    \/ SetStateLock

SpecRace == Init /\ [][NextRace]_vars

SpecInit == Init /\ [][NextInit]_vars

----------------------------------------------------------------------------
(* BatchNormalization: the counter N *)

\* most fine-tuning calls followed in a row
MaxN == 4

\* the constructor's size, axis and decay; a decay is the pair
\* <<numerator, denominator>> of its exact value
SizeArgs == {None, "3"}
AxisArgs == {None, "0"}
DecayArgs == {<<9, 10>>, <<1, 2>>}

\* a forward call without and with configuration.config.train, and its
\* keyword arguments: finetune (False when not given) and, rejected, test
TrainModes == BOOLEAN
Kwargs == [finetune : BOOLEAN, test : BOOLEAN]

\* line 234: 1. - 1. / self.N, as an exact fraction
FinetuneDecay(N) == <<N - 1, N>>

\* (mutant) N counts every call with finetune=True, in any mode
NAfterCall_anymode(N, train, finetune) == IF finetune THEN N + 1 ELSE N

\* lines 231-233: self.N after the mode check of a forward call
NAfterCall(N, train, finetune) == IF train /\ finetune THEN N + 1 ELSE N

\* lines 232-236: the decay a training-mode forward call passes on
DecayOf(link, N, finetune) == IF finetune THEN FinetuneDecay(N) ELSE link.decay

\* the frame of the last call on the link
LinkFrame(op, train, kw, decay, ret, err) ==
    [op |-> op, train |-> train, finetune |-> kw.finetune, test |-> kw.test,
     decay |-> decay, ret |-> ret, err |-> err]

NoKwargs == [finetune |-> FALSE, test |-> FALSE]
NoDecay == <<0, 0>>

\* __init__(size, decay, axis), lines 137-169.  finetuned is history, not
\* an attribute: the number of accepted training-mode forward calls with
\* finetune=True since the last start_finetuning() (or the construction).
LinkInitOp(size, decay, axis) ==
    IF size = None /\ axis = None
    THEN [phase |-> "failed",
          last |-> LinkFrame("__init__", FALSE, NoKwargs, NoDecay, None, "RuntimeError")]
    ELSE [phase |-> "ready", N |-> 0, decay |-> decay,
          axis |-> IF axis = None THEN None ELSE <<axis>>,
          has_avg_mean |-> size # None,
          last |-> LinkFrame("__init__", FALSE, NoKwargs, NoDecay, None, "none"),
          finetuned |-> 0]

\* __call__(x, **kwargs) under configuration.config.train = train, lines
\* 205-247
LinkCallOp(link, train, kw) ==
    LET inited == [link EXCEPT !.has_avg_mean = TRUE]
    IN  IF kw.test
        THEN [inited EXCEPT !.last = LinkFrame("__call__", train, kw, NoDecay, None,
                                               "ValueError")]
        ELSE IF train
        THEN LET N1 == NAfterCall(link.N, train, kw.finetune)
             IN  [inited EXCEPT
                    !.N = N1,
                    !.last = LinkFrame("__call__", train, kw,
                                       DecayOf(link, N1, kw.finetune),
                                       "batch_normalization", "none"),
                    !.finetuned = IF kw.finetune THEN @ + 1 ELSE @]
        ELSE [inited EXCEPT
                !.N = NAfterCall(link.N, train, kw.finetune),
                !.last = LinkFrame("__call__", train, kw, NoDecay,
                                   "fixed_batch_normalization", "none")]

\* start_finetuning(), line 257
StartFinetuningOp(link) ==
    [link EXCEPT !.N = 0, !.finetuned = 0,
                 !.last = LinkFrame("start_finetuning", FALSE, NoKwargs, NoDecay,
                                    None, "none")]

LinkConstruct ==
    /\ bn = NoLink
    /\ \E size \in SizeArgs, decay \in DecayArgs, axis \in AxisArgs :
          bn' = LinkInitOp(size, decay, axis)
    /\ UNCHANGED <<phase, call, self, handles, locks, thr, snap>>

LinkCall ==
    /\ bn.phase = "ready"
    /\ bn.N < MaxN
    /\ \E train \in TrainModes, kw \in Kwargs : bn' = LinkCallOp(bn, train, kw)
    /\ UNCHANGED <<phase, call, self, handles, locks, thr, snap>>

LinkStartFinetuning ==
    /\ bn.phase = "ready"
    /\ bn' = StartFinetuningOp(bn)
    /\ UNCHANGED <<phase, call, self, handles, locks, thr, snap>>

NextLink ==
    \/ LinkConstruct
    \/ LinkCall
    \/ LinkStartFinetuning

SpecLink == Init /\ [][NextLink]_vars

----------------------------------------------------------------------------
(* What a plain sequential scan of the files gives *)

\* the lines of a file, each with its newline; the last one may have none
RECURSIVE SplitAt(_, _)
SplitAt(content, term) ==
    IF content = <<>> THEN <<>>
    ELSE IF \E i \in 1..Len(content) : content[i] = term
    THEN LET i == CHOOSE i \in 1..Len(content) :
                     content[i] = term /\ \A j \in 1..(i - 1) : content[j] # term
         IN  <<SubSeq(content, 1, i)>> \o SplitAt(SubSeq(content, i + 1, Len(content)), term)
    ELSE <<content>>

\* the lines of a file read with the newline option nl: split after every
\* "\n", or after every "\r" when nl is "\r" or "\r\n" (no file has a "\r")
SplitLines(content, nl) == SplitAt(content, IF nl \in {CR, CRNL} THEN CR ELSE NL)

\* the number of physical lines of the file at path, read with nl
LineCount(path, nl) == Len(SplitLines(Disk[path], nl))

\* physical line p (0-origin) of every file of the Reader d, in order
Record(d, p) ==
    [k \in 1..Len(d._paths) |-> SplitLines(Disk[d._paths[k]], d._newline[k])[p + 1]]

\* the logical index idx is valid for the Reader d
ValidIndex(d, idx) == 0 <= idx /\ idx < Len(d._lines)

----------------------------------------------------------------------------
(* C1 *)

\* C1: a get_example(i) call with 0 <= i < len returns line _lines[i] of
\* every file as a sequential scan of that file gives it, bare for one file
\* and as a tuple in file order otherwise.  It fails only when the operating
\* system fails a seek or read, or when the files are not open (TypeError).
C1_GetReturnsScannedLines ==
    phase = "ready" =>
      /\ \A t \in Threads :
            LET f == thr[t]
            IN  f.pc = "done" =>
                  /\ f.out.kind = "ok" =>
                        /\ ValidIndex(self, f.idx)
                        /\ f.out.lines = Record(self, self._lines[f.idx + 1])
                        /\ f.out.bare = (Len(self._paths) = 1)
                  /\ ValidIndex(self, f.idx) =>
                        f.out.kind \in {"ok", "IOError", "TypeError"}
      /\ Fps(self) # NoFps =>
            \A i \in 0..(LenOp(self) - 1) :
                SeqGet(self, handles, i).out =
                    [kind |-> "ok", bare |-> (Len(self._paths) = 1),
                     lines |-> Record(self, self._lines[i + 1])]

\* a call on a two-file Reader with a filter returned record 2 for index 1
C1_Witness ==
    /\ phase = "ready"
    /\ \E t \in Threads :
          /\ thr[t].pc = "done" /\ thr[t].out.kind = "ok" /\ thr[t].idx = 1
          /\ Len(self._paths) = 2 /\ self._lines = <<0, 2>>
          /\ thr[t].out.lines = << <<"c", NL>>, <<"c", NL>> >>

----------------------------------------------------------------------------
(* C2 *)

\* C2: at most one get_example call is between its acquire and its release,
\* so the seeks and reads of two calls never interleave; and every line a
\* call on a multi-file Reader has read or returned is a line of the record
\* it asked for.
C2_GetsNeverInterleave ==
    /\ Cardinality({t \in Threads : InCritical(thr[t])}) <= 1
    /\ \A t \in Threads :
          LET f == thr[t]
              got == IF f.pc = "read" THEN f.lines ELSE f.out.lines
          IN  (f.pc = "read" \/ f.out.kind = "ok") /\ Len(self._paths) > 1 =>
                \A k \in 1..Len(got) :
                    got[k] = SplitLines(Disk[self._paths[k]],
                                        self._newline[k])[self._lines[f.idx + 1] + 1]

\* one call has read its first file and is about to read its second while
\* another call, for another index, waits for the lock
C2_Witness ==
    \E t, u \in Threads :
        /\ thr[t].pc = "read" /\ thr[t].k = 2
        /\ thr[u].pc = "acquire" /\ thr[u].lock # 0
        /\ thr[u].idx # thr[t].idx

----------------------------------------------------------------------------
(* C3 *)

\* C3: get_example(i) with i < 0 or i >= len raises IndexError, and does so
\* without taking the lock, without a seek or a read, and without changing
\* the Reader; no call with such an index ever gets past the range check.
C3_OutOfRangeRaisesWithoutIO ==
    /\ [](\A t \in Threads :
            /\ thr[t].out.kind = "IndexError" <=>
                  (thr[t].pc = "done" /\ ~ValidIndex(self, thr[t].idx))
            /\ thr[t].pc \notin {"idle", "done"} => ValidIndex(self, thr[t].idx))
    /\ [][\A t \in Threads :
            (thr[t].pc = "idle" /\ thr'[t].pc # "idle"
               /\ (thr'[t].idx < 0 \/ thr'[t].idx >= Len(self._lines)))
            => /\ thr'[t] = [IdleFrame EXCEPT !.pc = "done", !.idx = thr'[t].idx,
                                              !.out = Raised("IndexError")]
               /\ UNCHANGED <<self, handles, locks, snap>>]_vars

\* get_example(-1) on a Reader with records raised IndexError
C3_Witness ==
    /\ phase = "ready"
    /\ \E t \in Threads :
          /\ thr[t].pc = "done" /\ thr[t].out.kind = "IndexError"
          /\ thr[t].idx = -1 /\ Len(self._lines) > 0
    /\ \E t \in Threads :
          /\ thr[t].pc = "done" /\ thr[t].out.kind = "IndexError"
          /\ thr[t].idx = Len(self._lines)

----------------------------------------------------------------------------
(* C4 *)

\* option o of a constructor call over n files, as a list of n values
PerFile(o, n) ==
    [i \in 1..n |-> CASE o.tag = "none" -> None
                      [] o.tag = "str" -> o.s
                      [] o.tag = "list" -> o.l[i]]

\* the arguments of the constructor call pass lines 64-79, and every file
\* exists and is given a codec and a newline mode that io.open accepts
ConfigOk(c) ==
    LET n == IF c.paths.tag = "str" THEN 1 ELSE Len(c.paths.l)
        fits(o) == o.tag = "list" => Len(o.l) = n
    IN  /\ n > 0 /\ fits(c.encoding) /\ fits(c.errors) /\ fits(c.newline)
        /\ \A i \in 1..n :
              /\ NormPaths(c.paths)[i] \in Files
              /\ PerFile(c.encoding, n)[i] \in {None, "ascii"}
              /\ PerFile(c.newline, n)[i] \in {None, CR}

\* C4: the constructor over two or more files that can be opened succeeds
\* exactly when all files have the same number of physical lines, each
\* read with its newline option and a last line without a newline counting
\* as one; it then indexes every line of every file.  Otherwise it raises
\* ValueError and leaves no Reader.
C4_MisalignedFilesFail ==
    (call.op = "__init__" /\ call.paths.tag = "list" /\ Len(call.paths.l) >= 2
        /\ ConfigOk(call)) =>
      LET ps == call.paths.l
          nls == PerFile(call.newline, Len(ps))
      IN  IF \A i, j \in 1..Len(ps) : LineCount(ps[i], nls[i]) = LineCount(ps[j], nls[j])
          THEN /\ call.err = "none" /\ phase = "constructed"
               /\ \A k \in 1..Len(ps) :
                     Len(self._bounds[k]) = LineCount(ps[k], nls[k]) + 1
          ELSE /\ call.err = "ValueError:lines" /\ phase = "failed"
               /\ ~HasAttr(self, "_bounds") /\ ~HasAttr(self, "_lines")

\* a 3-line file with a 2-line file whose last line has no newline: failed
C4_Witness ==
    /\ phase = "failed" /\ call.op = "__init__"
    /\ call.paths = [tag |-> "list", l |-> <<"abc", "xy">>]
    /\ call.err = "ValueError:lines"

----------------------------------------------------------------------------
(* C5 *)

\* C5: after construction with a filter_func, _lines is the increasing
\* sequence of the physical line numbers whose record filter_func accepted,
\* len is their number and get_example(j) returns the j-th accepted record;
\* without a filter_func, _lines is 0..n-1 and len is n, the number of
\* physical lines.
C5_LogicalIndexIsAcceptedLines ==
    (call.op = "__init__" /\ call.err = "none") =>
      LET n == LineCount(self._paths[1], self._newline[1])
          accepts(p) == ApplyFilter(call.filter_func, Record(self, p))
          accepted == IF call.filter_func = None THEN Range(n)
                      ELSE SelectSeq(Range(n), accepts)
      IN  /\ self._lines = accepted
          /\ LenOp(self) = Len(accepted)
          /\ \A j \in 0..(Len(accepted) - 1) :
                SeqGet(self, handles, j).out.lines = Record(self, accepted[j + 1])

\* lines 0 and 2 of three accepted: len is 2, index 1 is physical line 2
C5_Witness ==
    /\ phase = "constructed" /\ call.filter_func = "first_is_a_or_c"
    /\ self._paths = <<"abc", "abc">>
    /\ self._lines = <<0, 2>> /\ LenOp(self) = 2

----------------------------------------------------------------------------
(* C8 *)

\* C8: the constructor raises the ValueError of lines 67 and 77, having
\* called io.open for no file and read no line, exactly when the list of
\* paths is empty or an option is a list whose length is not the number of
\* files; an option given as one string or not given is used for every
\* file and does not raise it (io.open may still reject the value, later).
C8_ConfigErrorsBeforeOpen ==
    call.op = "__init__" =>
      LET n == IF call.paths.tag = "str" THEN 1 ELSE Len(call.paths.l)
          misfit(o) == o.tag = "list" /\ Len(o.l) # n
          plain(o, stored) ==
              o.tag # "list" =>
                stored = [i \in 1..n |-> IF o.tag = "str" THEN o.s ELSE None]
      IN  IF n = 0 \/ misfit(call.encoding) \/ misfit(call.errors) \/ misfit(call.newline)
          THEN /\ call.err = IF n = 0 THEN "ValueError:empty" ELSE "ValueError:options"
               /\ phase = "failed"
               /\ call.tried = 0 /\ call.opens = 0 /\ call.reads = 0
               /\ handles = <<>> /\ self = EmptyDict
          ELSE /\ call.err \notin {"ValueError:empty", "ValueError:options"}
               /\ call.tried >= 1
               /\ call.err \in {"none", "ValueError:lines"} => call.opens = n
               /\ Len(self._encoding) = n /\ Len(self._errors) = n
               /\ Len(self._newline) = n
               /\ plain(call.encoding, self._encoding)
               /\ plain(call.errors, self._errors)
               /\ plain(call.newline, self._newline)

\* errors given as a list of one for two files: ValueError, nothing opened
C8_Witness ==
    /\ phase = "failed" /\ call.op = "__init__"
    /\ call.paths = [tag |-> "list", l |-> <<"abc", "abc">>]
    /\ call.errors = [tag |-> "list", l |-> <<"strict">>]
    /\ call.encoding = [tag |-> "str", s |-> "ascii"]
    /\ call.err = "ValueError:options" /\ call.tried = 0

----------------------------------------------------------------------------
(* C6 *)

\* C6: __setstate__ with the state __getstate__ returned, on the same
\* Reader or on a new object, gives a Reader with the length of the
\* original and, for every index in range, the get_example result of the
\* original.
C6_RoundTrip ==
    [][(IsSnapshot(snap) /\ snap' = Adopted) =>
         /\ LenOp(self') = LenOp(self)
         /\ GetStateOp(self') = GetStateOp(self)
         /\ \A i \in 0..(LenOp(self) - 1) :
               /\ SeqGet(self', handles', i).out =
                     Returned(Record(self, self._lines[i + 1]))
               /\ Fps(self) # NoFps =>
                     SeqGet(self', handles', i).out = SeqGet(self, handles, i).out]_vars

\* after a __setstate__, a call on the two-file Reader is leaving with the
\* record it asked for
C6_Witness ==
    /\ snap = Adopted
    /\ \E t \in Threads :
          /\ thr[t].pc = "release" /\ thr[t].out.kind = "ok" /\ thr[t].idx = 1
          /\ Len(self._paths) = 2
          /\ thr[t].out.lines = Record(self, self._lines[2])

----------------------------------------------------------------------------
(* C7 *)

\* the lock is held exactly while a call is between acquire and release
LockHeldOnlyInside ==
    /\ \A t \in Threads :
          IF InCritical(thr[t])
          THEN thr[t].lock = self._lock /\ locks[thr[t].lock]
          ELSE thr[t].lock # 0 => thr[t].pc = "acquire"
    /\ (\A t \in Threads : ~InCritical(thr[t])) =>
          \A l \in DOMAIN locks : ~locks[l]

\* C7: a get_example call that fails after taking the lock releases it
\* before the exception reaches the caller: a call that is not between
\* acquire and release holds no lock, the lock is free whenever no call is
\* inside, and every call that took the lock leaves with the lock released,
\* so a waiting call can take it; whatever calls failed before, a call with
\* a valid index on the open Reader returns the record it asks for.
C7_LockReleasedOnFailure ==
    /\ []LockHeldOnlyInside
    /\ [](phase = "ready" /\ Fps(self) # NoFps =>
            \A i \in 0..(LenOp(self) - 1) :
               SeqGet(self, handles, i).out =
                  Returned(Record(self, self._lines[i + 1])))
    /\ \A t \in Threads :
          InCritical(thr[t]) ~> (thr[t].pc = "done" /\ ~locks[self._lock])

\* a call failed with an I/O error, and the other call has since taken the
\* lock
C7_Witness ==
    \E t, u \in Threads :
        /\ thr[t].pc = "done" /\ thr[t].out.kind = "IOError"
        /\ thr[u].pc = "enter" /\ locks[self._lock]

----------------------------------------------------------------------------
(* C9 *)

\* C9: _open() on a Reader whose files are open changes nothing (the file
\* objects and their positions stay), _close() on a Reader whose files are
\* closed changes nothing, and a second _open() or _close() right after
\* the first changes nothing, so get_example gives the same after one call
\* as after two.
C9_OpenCloseIdempotent ==
    phase = "ready" =>
      LET o == OpenOp(self, handles, Pinned)
          c == CloseOp(self, handles)
          oo == OpenOp(o[1], o[2], Pinned)
          cc == CloseOp(c[1], c[2])
      IN  /\ Fps(self) # NoFps => o = <<self, handles, "none">>
          /\ Fps(self) = NoFps => c = <<self, handles>>
          /\ oo = o /\ cc = c
          /\ \A i \in -1..MaxIdx :
                /\ SeqGet(oo[1], oo[2], i) = SeqGet(o[1], o[2], i)
                /\ SeqGet(cc[1], cc[2], i) = SeqGet(c[1], c[2], i)

\* the files are open and a get_example call has moved a cursor into the
\* middle of a file: another _open() would show
C9_Witness ==
    /\ phase = "ready" /\ Quiet /\ Fps(self) # NoFps
    /\ \E h \in Elems(Fps(self)) :
          0 < handles[h].pos /\ handles[h].pos < Len(Disk[handles[h].path])

----------------------------------------------------------------------------
(* C10 *)

\* the attributes that make up the persistent state of a Reader
PersistedKeys == {"_paths", "_encoding", "_errors", "_newline", "_bounds", "_lines"}

\* C10: the state __getstate__ returns holds the paths, the per-file
\* options, the offset tables and the logical index of the Reader, and
\* neither its files nor its lock, whether the files are open or closed;
\* taking it changes nothing of the Reader.
C10_SnapshotHasNoHandles ==
    /\ [](IsSnapshot(snap) =>
            /\ DOMAIN snap = PersistedKeys
            /\ \A key \in PersistedKeys : snap[key] = self[key]
            /\ ~HasAttr(snap, "_fps") /\ ~HasAttr(snap, "_lock"))
    /\ [][(IsSnapshot(snap') /\ snap' # snap) =>
            UNCHANGED <<phase, self, handles, locks, thr>>]_vars

\* a snapshot was taken and the files of the Reader are open
C10_Witness ==
    /\ IsSnapshot(snap) /\ Fps(self) # NoFps
    /\ HasAttr(self, "_lock") /\ Len(self._paths) = 2
    /\ \A h \in Elems(Fps(self)) : ~handles[h].closed

----------------------------------------------------------------------------
(* C11 *)

\* C11: a get_example call with a valid index made while the files of the
\* Reader are not open (after _close()) opens them and returns the record
\* it asks for: no such call ends with the TypeError of iterating None.
C11_GetOpensLazily ==
    phase = "ready" =>
      /\ \A t \in Threads :
            (thr[t].pc = "done" /\ ValidIndex(self, thr[t].idx)) =>
               thr[t].out.kind # "TypeError"
      /\ Fps(self) = NoFps =>
            \A i \in 0..(LenOp(self) - 1) :
               SeqGet(self, handles, i).out =
                  Returned(Record(self, self._lines[i + 1]))

----------------------------------------------------------------------------
(* C12 *)

\* C12 as stated: when __getstate__ has returned a state, the files of the
\* Reader are closed.
C12_SnapshotClosesFiles ==
    [][(IsSnapshot(snap') /\ snap' # snap) =>
          /\ Fps(self') = NoFps
          /\ \A h \in DOMAIN handles' : handles'[h].closed]_vars

\* C12: __getstate__ leaves the files of the Reader as they are: the same
\* file objects, open if they were open, at the same positions, so that
\* get_example gives right after it what it gave right before.
C12_SnapshotLeavesFilesOpen ==
    [][(IsSnapshot(snap') /\ snap' # snap) =>
          /\ Fps(self') = Fps(self)
          /\ \A h \in Elems(Fps(self)) :
                h \in DOMAIN handles' /\ handles'[h] = handles[h]
          /\ \A i \in -1..MaxIdx :
                SeqGet(self', handles', i) = SeqGet(self, handles, i)]_vars

\* a state was returned by __getstate__ while a file of the Reader was open
\* with its cursor in the middle, and it still is
C12_Witness ==
    /\ IsSnapshot(snap) /\ Quiet
    /\ \E h \in Elems(Fps(self)) :
          /\ ~handles[h].closed
          /\ 0 < handles[h].pos /\ handles[h].pos < Len(Disk[handles[h].path])

----------------------------------------------------------------------------
(* C13 *)

\* the files of d are open, one per path, opened with the options of d
OpenWithSpecs(d, hs) ==
    /\ Len(Fps(d)) = Len(d._paths)
    /\ \A k \in 1..Len(d._paths) :
          /\ Fps(d)[k] \in DOMAIN hs
          /\ [hs[Fps(d)[k]] EXCEPT !.pos = 0] =
                IoOpen(d._paths[k], d._encoding[k], d._errors[k], d._newline[k])

\* C13: __setstate__(state) first closes the files the Reader has open,
\* then makes state its __dict__, then opens one file per path of state
\* with the options of state, then installs a new unlocked lock; when it
\* returns every file of the former state is closed, the files are open
\* and get_example returns records with no call of _open.
C13_RestoreOrder ==
    /\ [](InSetState("adopt") =>
            /\ Fps(self) = NoFps
            /\ \A h \in DOMAIN handles : handles[h].closed
            /\ IsSnapshot(snap))
    /\ [](InSetState("open") =>
            /\ self = call.state /\ snap = Adopted
            /\ Fps(self) = NoFps /\ LockOf(self) = 0
            /\ \A h \in DOMAIN handles : handles[h].closed)
    /\ [](InSetState("lock") =>
            /\ GetStateOp(self) = call.state
            /\ OpenWithSpecs(self, handles)
            /\ LockOf(self) = 0)
    /\ [][(InSetState("lock") /\ call' = NoCall) =>
            /\ GetStateOp(self') = call.state
            /\ LockOf(self') # 0 /\ LockOf(self') \notin PinnedLocks
            /\ ~locks'[LockOf(self')]
            /\ OpenWithSpecs(self', handles')
            /\ \A h \in DOMAIN handles' \ Elems(Fps(self')) : handles'[h].closed
            /\ \A i \in 0..(LenOp(self') - 1) :
                  SeqGet(self', handles', i).out =
                     Returned(Record(self', self'._lines[i + 1]))]_vars

\* __setstate__ is at its last line: a file of the former state, which a
\* get_example call still refers to, is closed, and the new files are open
C13_Witness ==
    /\ InSetState("lock")
    /\ Len(self._paths) = 2 /\ LenOp(self) > 0
    /\ \E h \in DOMAIN handles : handles[h].closed
    /\ \A h \in Elems(Fps(self)) : ~handles[h].closed

----------------------------------------------------------------------------
(* C14 *)

\* a Reader exists: the constructor succeeded
HasReader == phase \in {"constructed", "ready"}

\* C14: in every state of a Reader, after the constructor or a
\* __setstate__, the offset table of each file starts with 0, is strictly
\* increasing, has one entry more than the file has lines, its entry p + 1
\* is the position after reading line p, and all tables are equally long.
C14_OffsetTables ==
    HasReader =>
      /\ Len(self._bounds) = Len(self._paths)
      /\ \A k \in 1..Len(self._paths) :
            LET b == self._bounds[k]
                ls == SplitLines(Disk[self._paths[k]], self._newline[k])
            IN  /\ b[1] = 0
                /\ Len(b) = Len(ls) + 1
                /\ \A p \in 1..(Len(b) - 1) : b[p] < b[p + 1]
                /\ \A p \in 1..Len(ls) : b[p + 1] = b[p] + Len(ls[p])
                /\ \A j \in 1..Len(self._paths) : Len(self._bounds[j]) = Len(b)

\* a restored Reader over two files whose lines differ in length
C14_Witness ==
    /\ phase = "ready" /\ snap = Adopted
    /\ self._bounds = <<(<<0, 3, 4>>), (<<0, 2, 3>>)>>

----------------------------------------------------------------------------
(* C15 *)

\* the offset at which line p (0-origin) of content starts
RECURSIVE LineStart(_, _, _)
LineStart(content, p, nl) ==
    IF p = 0 THEN 0 ELSE LineEnd(content, LineStart(content, p - 1, nl), nl)

\* C15: in every state of a Reader, after the constructor or a
\* __setstate__, the logical index is strictly increasing, no longer than
\* the files have lines, holds only line numbers of the files, and for
\* every valid index the offset get_example seeks to exists in the table of
\* every file and is the start of that line.
C15_LogicalIndex ==
    HasReader =>
      LET n == LineCount(self._paths[1], self._newline[1])
      IN  /\ Len(self._lines) <= n
          /\ \A j \in 1..Len(self._lines) : 0 <= self._lines[j] /\ self._lines[j] < n
          /\ \A j \in 1..(Len(self._lines) - 1) : self._lines[j] < self._lines[j + 1]
          /\ \A i \in 0..(LenOp(self) - 1), k \in 1..Len(self._paths) :
                LET p == LineNumOf(self, i)
                IN  /\ p + 1 \in DOMAIN self._bounds[k]
                    /\ SeekOffset(self, k, p) =
                          LineStart(Disk[self._paths[k]], p, self._newline[k])
                    /\ SeekOffset(self, k, p) < Len(Disk[self._paths[k]])

\* a restored Reader whose filter kept lines 0 and 2 of three
C15_Witness ==
    /\ phase = "ready" /\ snap = Adopted
    /\ self._lines = <<0, 2>>
    /\ Len(self._paths) = 2

----------------------------------------------------------------------------
(* C16 *)

\* the length of the longest file
LongestFile ==
    CHOOSE n \in {Len(Disk[q]) : q \in Files} : \A q \in Files : Len(Disk[q]) <= n

\* the file objects hs with every cursor moved to offset p (or to the end
\* of its file, if that comes first)
CursorsAt(hs, p) ==
    [h \in DOMAIN hs |->
        IF hs[h].closed THEN hs[h]
        ELSE [hs[h] EXCEPT !.pos = IF p <= Len(Disk[hs[h].path]) THEN p
                                    ELSE Len(Disk[hs[h].path])]]

\* C16: no step of a get_example call, returning or raising, changes the
\* attributes of the Reader, so paths, options, offset tables, logical
\* index and length stay as they are; and what get_example(i) gives does
\* not depend on where earlier calls left the cursors of the files.
C16_GetIsPureInPersistentState ==
    /\ [][thr' # thr => self' = self /\ LenOp(self') = LenOp(self)]_vars
    /\ [](phase = "ready" =>
            \A i \in 0..(LenOp(self) - 1), p \in {0, 1, LongestFile} :
               SeqGet(self, CursorsAt(handles, p), i).out = SeqGet(self, handles, i).out)
    /\ [](phase = "ready" /\ Fps(self) # NoFps =>
            \A t \in Threads :
               (thr[t].pc = "done" /\ thr[t].out.kind = "ok") =>
                  thr[t].out = SeqGet(self, CursorsAt(handles, 0), thr[t].idx).out)

\* a call has returned a record after another call failed with an I/O
\* error, and a cursor is left in the middle of a file
C16_Witness ==
    /\ \E t, u \in Threads :
          /\ thr[t].pc = "done" /\ thr[t].out.kind = "ok" /\ thr[t].idx = 1
          /\ thr[u].pc = "done" /\ thr[u].out.kind = "IOError"
    /\ \E h \in Elems(Fps(self)) :
          0 < handles[h].pos /\ handles[h].pos < Len(Disk[handles[h].path])

----------------------------------------------------------------------------
(* C17 *)

\* C17: _close() closes every file even when close() fails for some of
\* them: each failure is swallowed, the files close() did not fail for are
\* closed all the same, _close() raises nothing, and afterwards _fps is
\* None; nothing else of the Reader changes.
C17_CloseSwallowsFailures ==
    /\ [](phase = "closing" =>
            /\ call.err = "none"
            /\ call.swallowed = Cardinality(call.failing)
            /\ Fps(self) = NoFps)
    /\ [][(phase = "ready" /\ phase' = "closing") =>
            /\ \A k \in 1..Len(Fps(self)) :
                  k \notin call'.failing => handles'[Fps(self)[k]].closed
            /\ DelAttrs(self', {"_fps"}) = DelAttrs(self, {"_fps"})
            /\ locks' = locks /\ thr' = thr]_vars

\* _close() has run on a Reader over two files, close() failed for the
\* first of them, and the second is closed
C17_Witness ==
    /\ phase = "closing"
    /\ call.failing = {1} /\ call.swallowed = 1
    /\ Len(self._paths) = 2
    /\ \E h \in DOMAIN handles : handles[h].path = self._paths[2] /\ handles[h].closed

----------------------------------------------------------------------------
(* C18 *)

\* the number of line sets read from all of the files of d: the line
\* count of the shortest
CompleteLineSets(d) ==
    LET count(k) == LineCount(d._paths[k], d._newline[k])
    IN  CHOOSE m \in {count(k) : k \in 1..Len(d._paths)} :
            \A k \in 1..Len(d._paths) : m <= count(k)

\* the attributes a Reader has
ReaderAttrs == PersistedKeys \cup {"_fps", "_lock"}

\* C18: the constructor calls filter_func exactly once for every line set
\* it read from all files, in increasing line order, and not for the
\* iteration that finds the end of a file; the Reader keeps no reference to
\* filter_func, so that no later operation can call it.
C18_FilterCalledOncePerLineSet ==
    /\ (phase \in {"constructed", "failed"}) =>
          call.calls =
             IF call.filter_func = None \/ call.reads = 0 THEN <<>>
             ELSE Range(CompleteLineSets(self))
    /\ HasReader => DOMAIN self \subseteq ReaderAttrs
    /\ phase \in {"ready", "closing"} => "calls" \notin DOMAIN call

\* the constructor has indexed two files of three lines with a filter_func
\* that rejects every line set
C18_Witness ==
    /\ phase = "constructed"
    /\ call.filter_func = "never"
    /\ call.calls = <<0, 1, 2>>
    /\ Len(self._paths) = 2 /\ self._lines = <<>>

----------------------------------------------------------------------------
(* C19 *)

\* a get_example call that returned, returned the record of its index
ReturnsOwnRecord(f) ==
    (f.pc = "done" /\ f.out.kind = "ok") =>
       f.out = Returned(Record(self, PyIndex(self._lines, f.idx)))

\* C19: while a get_example call holds the lock, _close() and
\* __setstate__() do not touch the files or the lock: self._lock stays the
\* lock the call acquired and stays locked, the files stay open and stay
\* the files the call is working on, and a call that returns, returns the
\* record of its index.
C19_GetHasExclusiveAccess ==
    /\ \A t \in Threads :
          InCritical(thr[t]) =>
             /\ LockOf(self) = thr[t].lock
             /\ locks[thr[t].lock]
             /\ Fps(self) # NoFps
             /\ \A h \in Elems(Fps(self)) : ~handles[h].closed
             /\ thr[t].fps # NoFps => thr[t].fps = Fps(self)
    /\ \A t \in Threads : ReturnsOwnRecord(thr[t])

\* C19, its last part alone: a call that returns, returns the record of
\* its index
C19_ReturnsOwnRecord == \A t \in Threads : ReturnsOwnRecord(thr[t])

----------------------------------------------------------------------------
(* C20 *)

\* C20: after any forward calls and start_finetuning() calls, N is the
\* number of accepted forward calls made in training mode with
\* finetune=True since the last start_finetuning() (since the construction
\* if there was none): such a call adds exactly 1 to N before it computes
\* its decay 1 - 1/N from it, so N >= 1 there; a forward call in testing
\* mode or with finetune=False leaves N as it is; start_finetuning() sets N
\* to 0.
C20_NCountsFinetuneCalls ==
    /\ [](bn.phase = "ready" => bn.N = bn.finetuned /\ bn.N >= 0)
    /\ [][(bn.phase = "ready" /\ bn' # bn) =>
            LET f == bn'.last
            IN  /\ f.op \in {"__call__", "start_finetuning"}
                /\ (f.op = "__call__" /\ f.err = "none" /\ f.train /\ f.finetune) =>
                      /\ bn'.N = bn.N + 1 /\ bn'.N >= 1
                      /\ f.decay = <<bn.N, bn.N + 1>>
                /\ (f.op = "__call__" /\ ~(f.train /\ f.finetune)) => bn'.N = bn.N
                /\ (f.op = "__call__" /\ f.err = "none" /\ f.train /\ ~f.finetune) =>
                      f.decay = bn.decay
                /\ f.op = "start_finetuning" => bn'.N = 0]_vars

\* two fine-tuning calls have been counted, and the last call was a forward
\* call with finetune=True in testing mode
C20_Witness ==
    /\ bn.phase = "ready" /\ bn.N = 2
    /\ bn.last.op = "__call__" /\ bn.last.finetune /\ ~bn.last.train
    /\ bn.last.err = "none"

====
